---- MODULE Spec2Model ----
(***************************************************************************)
(* Model of isoconda/models/channel.py: the immutable value objects        *)
(* ChannelGroupInfo and ChannelData and their transformations from_data,   *)
(* dump, merge, rescale, update_latest and update_subdirs.                 *)
(*                                                                         *)
(* Strings that the code sorts (group names, subdir identifiers) are       *)
(* modelled by naturals: the number is the rank of the string in           *)
(* lexicographic order, so that sorted() is a sort of numbers.             *)
(* A Python dict is a record [order, val]: its keys in insertion order     *)
(* and the mapping itself; two dicts are equal when their val are.         *)
(* An Optional value is <<>> (None) or <<x>>.                              *)
(***************************************************************************)
EXTENDS Integers, Sequences, FiniteSets, TLC

VARIABLES
  op,      \* the last operation called ("init": none yet)
  cls,     \* the class of self: "none", "ChannelGroupInfo" or "ChannelData"
  self,    \* the object the operations are called on
  arg,     \* the argument of the last call
  out,     \* what the last call returned
  err,     \* the exception the last call raised, or "none"
  built,   \* how many ChannelGroupInfo the last from_data constructed
  heap,    \* object store: the mutable dicts and lists, by address
  owner,   \* who holds a reference to each cell: "caller" or "private"
  objs,    \* object store: the ChannelGroupInfo and ChannelData instances
  born,    \* the serialized form of each instance when it was constructed
  hop      \* object store: the last step, the calls and caller changes so far

vars == <<op, cls, self, arg, out, err, built, heap, owner, objs, born, hop>>

callVars == <<op, cls, self, arg, out, err, built>>
heapVars == <<heap, owner, objs, born, hop>>

(* ------------------------------ bounds -------------------------------- *)
\* longest subdirs list of a dictionary or snapshot given to parse / merge
MaxListLen == 2
\* most repositories handed to rescale
MaxRepos == 2
\* object store: most calls made after the first construction
MaxCalls == 2
\* object store: most changes the caller makes to its dicts and lists
MaxMutations == 1

(* --------------------------- value domains ---------------------------- *)
None == <<>>
Some(x) == <<x>>

Names == {1, 2}
Subdirs == {1, 2}
VersionTexts == {<<"text", 1>>, <<"text", 2>>}
Timestamps == {0, 1, 2}
OptTimestamps == {None} \cup {Some(t) : t \in Timestamps}

(* --------------------------- Python helpers --------------------------- *)
Range(s) == {s[i] : i \in 1..Len(s)}

RECURSIVE Insert(_, _)
Insert(x, s) ==
  IF s = <<>> THEN <<x>>
  ELSE IF x <= Head(s) THEN <<x>> \o s
  ELSE <<Head(s)>> \o Insert(x, Tail(s))

\* sorted(iterable) of a list: same elements, duplicates kept, ascending
RECURSIVE Sorted(_)
Sorted(s) == IF s = <<>> THEN <<>> ELSE Insert(Head(s), Sorted(Tail(s)))

\* sorted(a set): ascending, no duplicates
RECURSIVE SortedSet(_)
SortedSet(S) ==
  IF S = {} THEN <<>>
  ELSE LET m == CHOOSE x \in S : \A y \in S : x <= y
       IN <<m>> \o SortedSet(S \ {m})

IsSorted(s) == \A i \in 1..(Len(s) - 1) : s[i] <= s[i + 1]
NoDup(s) == \A i, j \in 1..Len(s) : i # j => s[i] # s[j]

\* every ordering of a set: list(a set) has no defined order
Perms(S) == {s \in [1..Cardinality(S) -> S] : Range(s) = S}

EmptyDict == [order |-> <<>>, val |-> <<>>]
Keys(d) == Range(d.order)

\* d[k] = v: a new key goes last, an old key keeps its place
DictSet(d, k, v) ==
  [order |-> IF k \in Keys(d) THEN d.order ELSE Append(d.order, k),
   val |-> [x \in Keys(d) \cup {k} |-> IF x = k THEN v ELSE d.val[x]]]

\* a field bag: data.pop(k, None) and data[k] = v
BagPop(data, k) == [x \in (DOMAIN data) \ {k} |-> data[x]]
BagSet(data, k, v) == [x \in (DOMAIN data) \cup {k} |-> IF x = k THEN v ELSE data[x]]

\* copy.deepcopy of a field bag: an equal value that shares nothing
DeepCopy(data) == [x \in DOMAIN data |-> data[x]]

(* --------------------------- ChannelGroupInfo -------------------------- *)
GroupInfo(name, data) == [name |-> name, data |-> DeepCopy(data)]

GroupDump(g) == DeepCopy(g.data)

GroupTimestamp(g) ==
  IF "timestamp" \in DOMAIN g.data THEN Some(g.data["timestamp"]) ELSE None

\* update_latest as it would be without the pop of a prior timestamp
update_latest_keep_timestamp(g, version, timestamp) ==
  LET data == DeepCopy(g.data)
      d1 == IF timestamp = None \/ timestamp = Some(0)
            THEN data
            ELSE BagSet(data, "timestamp", timestamp[1])
  IN GroupInfo(g.name, BagSet(d1, "version", version))

update_latest(g, version, timestamp) ==
  LET data == DeepCopy(g.data)
      d1 == IF timestamp = None \/ timestamp = Some(0)
            THEN BagPop(data, "timestamp")
            ELSE BagSet(data, "timestamp", timestamp[1])
  IN GroupInfo(g.name, BagSet(d1, "version", version))

update_subdirs(g, subdirs) ==
  GroupInfo(g.name, BagSet(DeepCopy(g.data), "subdirs", subdirs))

(* ------------------------------ ChannelData ---------------------------- *)
VERSION == 1

ChannelData(subdirs, groups) == [subdirs |-> subdirs, groups |-> groups]

\* the subdirs property: a copy of the list
SubdirsOf(c) == c.subdirs

RECURSIVE MergeLoop(_, _, _, _)
MergeLoop(a, b, keys, groups) ==
  IF keys = <<>> THEN groups
  ELSE LET key == Head(keys)
           g == IF key \in Keys(a.groups) THEN a.groups.val[key]
                ELSE b.groups.val[key]
       IN MergeLoop(a, b, Tail(keys), DictSet(groups, key, g))

\* merge as it would be if other's group won for a name of both
merge_other_wins(a, b) ==
  ChannelData(SortedSet(Range(SubdirsOf(a)) \cup Range(SubdirsOf(b))),
              MergeLoop(b, a, SortedSet(Keys(a.groups) \cup Keys(b.groups)), EmptyDict))

merge(a, b) ==
  LET subdirs == SortedSet(Range(SubdirsOf(a)) \cup Range(SubdirsOf(b)))
      keys == Keys(a.groups) \cup Keys(b.groups)
  IN ChannelData(subdirs, MergeLoop(a, b, SortedSet(keys), EmptyDict))


(* ------------------ ChannelData.from_data and dump --------------------- *)
\* the values of a channeldata dictionary's sections: a list, a dict, or
\* something that is neither (a number)
PyList(items) == [type |-> "list", items |-> items]
PyDict(d) == [type |-> "dict", order |-> d.order, val |-> d.val]
PyInt == [type |-> "int"]

\* the loop over channeldata['packages'].items()
RECURSIVE FromDataLoop(_, _, _)
FromDataLoop(packages, names, groups) ==
  IF names = <<>> THEN groups
  ELSE LET info == GroupInfo(Head(names), packages.val[Head(names)])
       IN FromDataLoop(packages, Tail(names), DictSet(groups, info.name, info))

\* from_data up to its return or raise: the error, the snapshot, and how many
\* ChannelGroupInfo were constructed on the way
\* from_data as it would be if the version were checked after the groups
from_data_check_last(d) ==
  IF "channeldata_version" \notin DOMAIN d
  THEN [err |-> "KeyError", chan |-> None, built |-> 0]
  ELSE IF "subdirs" \notin DOMAIN d \/ "packages" \notin DOMAIN d
  THEN [err |-> "KeyError", chan |-> None, built |-> 0]
  ELSE IF d["packages"].type # "dict"
  THEN [err |-> "AttributeError", chan |-> None, built |-> 0]
  ELSE LET groups == FromDataLoop(d["packages"], d["packages"].order, EmptyDict)
       IN IF d["channeldata_version"] # VERSION
          THEN [err |-> "InvalidChannel", chan |-> None, built |-> Len(groups.order)]
          ELSE IF d["subdirs"].type # "list"
          THEN [err |-> "TypeError", chan |-> None, built |-> Len(groups.order)]
          ELSE [err |-> "none", chan |-> ChannelData(d["subdirs"].items, groups),
                built |-> Len(groups.order)]

from_data(d) ==
  IF "channeldata_version" \notin DOMAIN d
  THEN [err |-> "KeyError", chan |-> None, built |-> 0]
  ELSE IF d["channeldata_version"] # VERSION
  THEN [err |-> "InvalidChannel", chan |-> None, built |-> 0]
  ELSE IF "subdirs" \notin DOMAIN d \/ "packages" \notin DOMAIN d
  THEN [err |-> "KeyError", chan |-> None, built |-> 0]
  ELSE IF d["packages"].type # "dict"
  THEN [err |-> "AttributeError", chan |-> None, built |-> 0]
  ELSE LET groups == FromDataLoop(d["packages"], d["packages"].order, EmptyDict)
       IN IF d["subdirs"].type # "list"
          THEN [err |-> "TypeError", chan |-> None, built |-> Len(groups.order)]
          ELSE [err |-> "none", chan |-> ChannelData(d["subdirs"].items, groups),
                built |-> Len(groups.order)]

\* dump as it would be without sorted()
dump_unsorted(c) ==
  [channeldata_version |-> VERSION,
   packages |-> PyDict([order |-> c.groups.order,
                        val |-> [n \in Keys(c.groups) |-> GroupDump(c.groups.val[n])]]),
   subdirs |-> PyList(SubdirsOf(c))]

dump(c) ==
  [channeldata_version |-> VERSION,
   packages |-> PyDict([order |-> c.groups.order,
                        val |-> [n \in Keys(c.groups) |-> GroupDump(c.groups.val[n])]]),
   subdirs |-> PyList(Sorted(SubdirsOf(c)))]

(* ------------------- collaborators of rescale (repo.py, utils.py) ------ *)
\* utils.create_order: the comparable key of a version text
create_order(version) == version[2]

\* str(order): the text of an order key, which is not a version text
StrOfOrder(order) == <<"order", order>>

PackageRecord(version, timestamp, subdir) ==
  [version |-> version, timestamp |-> timestamp, subdir |-> subdir]

\* one subdir's listing: name in repo, repo[name], repo.subdir
RepoData(subdir, groups) == [subdir |-> subdir, groups |-> groups]
RepoContains(repo, name) == name \in DOMAIN repo.groups
RepoGet(repo, name) == repo.groups[name]

(* ------------------------- ChannelData.rescale ------------------------- *)
\* a > b on (order, timestamp) tuples: the first differing element decides,
\* and None is not comparable with a number
\* the comparison as it would be on (timestamp, order) tuples
TupleGT_timestamp_first(a, b) ==
  IF a[2] # b[2]
  THEN IF a[2] = None \/ b[2] = None THEN [err |-> "TypeError", gt |-> FALSE]
       ELSE [err |-> "none", gt |-> a[2][1] > b[2][1]]
  ELSE [err |-> "none", gt |-> a[1] > b[1]]

TupleGT(a, b) ==
  IF a[1] # b[1] THEN [err |-> "none", gt |-> a[1] > b[1]]
  ELSE IF a[2] = b[2] THEN [err |-> "none", gt |-> FALSE]
  ELSE IF a[2] = None \/ b[2] = None THEN [err |-> "TypeError", gt |-> FALSE]
  ELSE [err |-> "none", gt |-> a[2][1] > b[2][1]]

\* max(iterable): the first item, replaced by every later item greater than it
RECURSIVE MaxLoop(_, _)
MaxLoop(best, rest) ==
  IF rest = <<>> THEN [err |-> "none", val |-> best]
  ELSE LET c == TupleGT(Head(rest), best)
       IN IF c.err # "none" THEN [err |-> c.err, val |-> best]
          ELSE MaxLoop(IF c.gt THEN Head(rest) ELSE best, Tail(rest))

PyMax(items) == MaxLoop(Head(items), Tail(items))

\* what one "for repo in repos" yields when the iterable stands at pos:
\* a list starts over every time, an iterator goes on where it stopped
Iterate(repos, pos) ==
  IF repos.kind = "list" THEN repos.items
  ELSE SubSeq(repos.items, pos + 1, Len(repos.items))

IterateEnd(repos, pos) ==
  IF repos.kind = "list" THEN 0 ELSE Len(repos.items)

\* the inner loop: packages.extend(repo[name]); channel_subdirs.add(repo.subdir)
RECURSIVE CollectLoop(_, _, _)
CollectLoop(name, seen, acc) ==
  IF seen = <<>> THEN acc
  ELSE LET repo == Head(seen)
       IN CollectLoop(name, Tail(seen),
            IF RepoContains(repo, name)
            THEN [packages |-> acc.packages \o RepoGet(repo, name),
                  subdirs |-> acc.subdirs \cup {repo.subdir}]
            ELSE acc)

\* the body of "if packages:"
Rescaled(info, packages) ==
  LET subdirs == SortedSet({packages[i].subdir : i \in 1..Len(packages)})
      m == PyMax([i \in 1..Len(packages) |->
                    <<create_order(packages[i].version), packages[i].timestamp>>])
  IN [err |-> m.err,
      info |-> IF m.err # "none" THEN info
               ELSE update_latest(update_subdirs(info, subdirs),
                                  StrOfOrder(m.val[1]), m.val[2])]

\* "if packages:" as it would be if a group without packages were carried
\* forward unchanged
RescaleGroup_carry_forward(groups, name, info, packages) ==
  IF packages = <<>> THEN [err |-> "none", groups |-> DictSet(groups, name, info)]
  ELSE LET r == Rescaled(info, packages)
       IN [err |-> r.err,
           groups |-> IF r.err # "none" THEN groups ELSE DictSet(groups, name, r.info)]

\* "if packages:" and what it guards: a group without packages is left out
RescaleGroup(groups, name, info, packages) ==
  IF packages = <<>> THEN [err |-> "none", groups |-> groups]
  ELSE LET r == Rescaled(info, packages)
       IN [err |-> r.err,
           groups |-> IF r.err # "none" THEN groups ELSE DictSet(groups, name, r.info)]

\* the loop over self.items(); an exception ends it
RECURSIVE RescaleLoop(_, _, _, _)
RescaleLoop(c, repos, names, st) ==
  IF names = <<>> \/ st.err # "none" THEN st
  ELSE LET name == Head(names)
           got == CollectLoop(name, Iterate(repos, st.pos),
                              [packages |-> <<>>, subdirs |-> st.channel_subdirs])
           g == RescaleGroup(st.groups, name, c.groups.val[name], got.packages)
       IN RescaleLoop(c, repos, Tail(names),
            [pos |-> IterateEnd(repos, st.pos),
             channel_subdirs |-> got.subdirs,
             groups |-> g.groups,
             err |-> g.err])

\* rescale up to its return: the groups, the set of channel subdirs, the error
rescale(c, repos) ==
  RescaleLoop(c, repos, c.groups.order,
              [pos |-> 0, channel_subdirs |-> {}, groups |-> EmptyDict, err |-> "none"])

(* ----------------------------- object store ---------------------------- *)
(* The same classes with Python's references spelled out: a dict or list   *)
(* is a cell of heap, a reference is an address, and owner tells whether   *)
(* the caller holds a reference to the cell ("caller": passed in by the    *)
(* caller or returned to it) or only the objects do ("private"). A store   *)
(* st is the record [heap, owner, objs, born].                             *)
(*   list cell [type |-> "list", items]                                    *)
(*   bag cell  [type |-> "bag", version, timestamp, subdirs]: a field bag, *)
(*             subdirs being None or Some(address of a list cell)          *)
(*   map cell  [type |-> "map", val]: a dict name -> index in objs         *)
(***************************************************************************)
ListCell(items) == [type |-> "list", items |-> items]
BagCell(version, timestamp, subdirs) ==
  [type |-> "bag", version |-> version, timestamp |-> timestamp, subdirs |-> subdirs]
MapCell(val) == [type |-> "map", val |-> val]

Alloc(st, cell, who) ==
  [st EXCEPT !.heap = Append(@, cell), !.owner = Append(@, who)]

\* the address of the cell allocated last
Last(st) == Len(st.heap)

\* list(x) and x.copy(): a new list with the same items
CopyList(st, a, who) == Alloc(st, ListCell(st.heap[a].items), who)

\* copy.deepcopy of a field bag: a new bag and a new list under it
DeepCopyBag(st, a, who) ==
  LET b == st.heap[a]
  IN IF b.subdirs = None THEN Alloc(st, b, who)
     ELSE LET s1 == CopyList(st, b.subdirs[1], who)
          IN Alloc(s1, [b EXCEPT !.subdirs = Some(Last(s1))], who)

\* what dump() of a field bag at address a shows
SerBag(h, a) ==
  [version |-> h[a].version, timestamp |-> h[a].timestamp,
   subdirs |-> IF h[a].subdirs = None THEN None ELSE Some(h[h[a].subdirs[1]].items)]

\* what dump() of object i shows
SerObj(st, i) ==
  LET o == st.objs[i]
  IN IF o.cls = "ChannelGroupInfo"
     THEN [name |-> o.name, data |-> SerBag(st.heap, o.data)]
     ELSE LET m == st.heap[o.groups].val
          IN [channeldata_version |-> VERSION,
              packages |-> [n \in DOMAIN m |-> SerBag(st.heap, st.objs[m[n]].data)],
              subdirs |-> Sorted(st.heap[o.subdirs].items)]

\* a finished constructor: the instance and its serialized form at birth
NewObj(st, o) ==
  LET s1 == [st EXCEPT !.objs = Append(@, o)]
  IN [s1 EXCEPT !.born = Append(@, SerObj(s1, Len(s1.objs)))]

\* ChannelGroupInfo.__init__ as it would be without copy.deepcopy
HGroupInit_alias(st, name, a) ==
  NewObj(st, [cls |-> "ChannelGroupInfo", name |-> name, data |-> a])

\* ChannelGroupInfo.__init__
HGroupInit(st, name, a) ==
  LET s1 == DeepCopyBag(st, a, "private")
  IN NewObj(s1, [cls |-> "ChannelGroupInfo", name |-> name, data |-> Last(s1)])

\* ChannelGroupInfo.dump: the copy goes to the caller
HGroupDump(st, i) == DeepCopyBag(st, st.objs[i].data, "caller")

\* ChannelGroupInfo.update_latest
HUpdateLatest(st, i, version, timestamp) ==
  LET s1 == DeepCopyBag(st, st.objs[i].data, "private")
      t == Last(s1)
      s2 == [s1 EXCEPT !.heap[t] =
               [@ EXCEPT !.timestamp = IF timestamp = None \/ timestamp = Some(0)
                                       THEN None ELSE timestamp,
                         !.version = version]]
  IN HGroupInit(s2, st.objs[i].name, t)

\* ChannelGroupInfo.update_subdirs, given a list at address la
HUpdateSubdirs(st, i, la) ==
  LET s1 == DeepCopyBag(st, st.objs[i].data, "private")
      t == Last(s1)
      s2 == CopyList(s1, la, "private")
      s3 == [s2 EXCEPT !.heap[t] = [@ EXCEPT !.subdirs = Some(Last(s2))]]
  IN HGroupInit(s3, st.objs[i].name, t)

\* ChannelData.__init__, given a list at la and a mapping at ma
HChannelInit(st, la, ma) ==
  LET s1 == CopyList(st, la, "private")
      s2 == Alloc(s1, MapCell(st.heap[ma].val), "private")
  IN NewObj(s2, [cls |-> "ChannelData", subdirs |-> Last(s1), groups |-> Last(s2)])

\* the loop of from_data over the packages (name -> address of a bag)
RECURSIVE HFromDataLoop(_, _, _, _)
HFromDataLoop(st, pkgs, names, m) ==
  IF names = <<>> THEN [st |-> st, m |-> m]
  ELSE LET s1 == HGroupInit(st, Head(names), pkgs[Head(names)])
       IN HFromDataLoop(s1, pkgs, Tail(names),
            [n \in DOMAIN m \cup {Head(names)} |->
               IF n = Head(names) THEN Len(s1.objs) ELSE m[n]])

\* ChannelData.from_data of a dictionary with the subdirs list at la
HFromData(st, la, pkgs) ==
  LET r == HFromDataLoop(st, pkgs, SortedSet(DOMAIN pkgs), <<>>)
      s1 == Alloc(r.st, MapCell(r.m), "private")
  IN HChannelInit(s1, la, Last(s1))

\* ChannelData.subdirs: the copy goes to the caller
HSubdirs(st, i) == CopyList(st, st.objs[i].subdirs, "caller")

RECURSIVE HDumpLoop(_, _, _)
HDumpLoop(st, m, names) ==
  IF names = <<>> THEN st
  ELSE HDumpLoop(HGroupDump(st, m[Head(names)]), m, Tail(names))

\* ChannelData.dump: every bag and the sorted list go to the caller; the
\* list self.subdirs hands to sorted() stays behind
HChannelDump(st, i) ==
  LET o == st.objs[i]
      s1 == HDumpLoop(st, st.heap[o.groups].val, SortedSet(DOMAIN st.heap[o.groups].val))
      s2 == CopyList(s1, o.subdirs, "private")
  IN Alloc(s2, ListCell(Sorted(s2.heap[Last(s2)].items)), "caller")

\* ChannelData.merge: the new snapshot shares the GroupInfo objects
HMerge(st, i, j) ==
  LET a == st.objs[i]
      b == st.objs[j]
      ma == st.heap[a.groups].val
      mb == st.heap[b.groups].val
      s1 == Alloc(st, ListCell(SortedSet(Range(st.heap[a.subdirs].items)
                                         \cup Range(st.heap[b.subdirs].items))), "private")
      s2 == Alloc(s1, MapCell([n \in DOMAIN ma \cup DOMAIN mb |->
                                 IF n \in DOMAIN ma THEN ma[n] ELSE mb[n]]), "private")
  IN HChannelInit(s2, Last(s1), Last(s2))

\* the loop of rescale over the groups, for a list of repos
RECURSIVE HRescaleLoop(_, _, _, _, _)
HRescaleLoop(st, m, repos, names, acc) ==
  IF names = <<>> THEN [st |-> st, acc |-> acc]
  ELSE LET name == Head(names)
           got == CollectLoop(name, repos, [packages |-> <<>>, subdirs |-> acc.subdirs])
       IN IF got.packages = <<>>
          THEN HRescaleLoop(st, m, repos, Tail(names), [acc EXCEPT !.subdirs = got.subdirs])
          ELSE LET p == got.packages
                   w == PyMax([k \in 1..Len(p) |->
                                 <<create_order(p[k].version), p[k].timestamp>>]).val
                   s1 == Alloc(st, ListCell(SortedSet({p[k].subdir : k \in 1..Len(p)})),
                               "private")
                   s2 == HUpdateSubdirs(s1, m[name], Last(s1))
                   s3 == HUpdateLatest(s2, Len(s2.objs), StrOfOrder(w[1]), w[2])
               IN HRescaleLoop(s3, m, repos, Tail(names),
                    [subdirs |-> got.subdirs,
                     groups |-> [n \in DOMAIN acc.groups \cup {name} |->
                                   IF n = name THEN Len(s3.objs) ELSE acc.groups[n]]])

\* ChannelData.rescale
HRescale(st, i, repos) ==
  LET m == st.heap[st.objs[i].groups].val
      r == HRescaleLoop(st, m, repos, SortedSet(DOMAIN m), [subdirs |-> {}, groups |-> <<>>])
      s1 == Alloc(r.st, ListCell(SortedSet(r.acc.subdirs)), "private")
      s2 == Alloc(s1, MapCell(r.acc.groups), "private")
  IN HChannelInit(s2, Last(s1), Last(s2))

\* what the caller may do to a dict or list it holds
Mutated(cell) ==
  IF cell.type = "list"
  THEN ListCell(IF cell.items = <<>> THEN <<1>> ELSE <<>>)
  ELSE IF cell.type = "bag"
  THEN [cell EXCEPT !.version = <<"text", 0>>, !.timestamp = None]
  ELSE MapCell(<<>>)

(* ------------------------------- inputs -------------------------------- *)
Opt(S) == {None} \cup {Some(x) : x \in S}

\* the field bag with the given optional fields
BagOf(v, t, s, e) ==
  LET f == [version |-> v, timestamp |-> t, subdirs |-> s, license |-> e]
  IN [k \in {x \in DOMAIN f : f[x] # None} |-> f[k][1]]

\* every field bag over a few values of each field
GroupBags ==
  {BagOf(v, t, s, e) : v \in Opt(VersionTexts), t \in Opt(Timestamps),
                       s \in Opt({<<2, 1>>}), e \in Opt({"BSD"})}

\* the bags of the groups of a snapshot
ChannelBags ==
  {BagOf(Some(<<"text", 1>>), None, None, None),
   BagOf(Some(<<"text", 2>>), Some(1), Some(<<2, 1>>), Some("BSD"))}

SeqsUpTo(S, n) == UNION {[1..k -> S] : k \in 0..n}

Orderings(S) == UNION {Perms(T) : T \in SUBSET S}

\* dicts name -> GroupInfo, keyed by the group's own name
GroupDicts(orders) ==
  UNION {{[order |-> o, val |-> [n \in Range(o) |-> GroupInfo(n, b[n])]] :
            b \in [Range(o) -> ChannelBags]} : o \in orders}

Snapshots ==
  {ChannelData(s, g) : s \in SeqsUpTo(Subdirs, MaxListLen),
                       g \in GroupDicts({SortedSet(T) : T \in SUBSET Names})}

Groups == {GroupInfo(n, b) : n \in Names, b \in GroupBags}


\* the records a listing of subdir sd may hold
Records(sd) ==
  {PackageRecord(v, t, sd) : v \in VersionTexts, t \in OptTimestamps}

\* repo[name] for the first group: no entry (None), an empty sequence, one record
Listings(sd) == {None, Some(<<>>)} \cup {Some(<<r>>) : r \in Records(sd)}

\* repo[name] for the other groups: no entry, or one fixed record
OtherListings(sd) ==
  {None, Some(<<PackageRecord(<<"text", 1>>, Some(1), sd)>>)}

Repos ==
  UNION {{RepoData(sd, [n \in {x \in Names : l[x] # None} |-> l[n][1]]) :
            l \in {f \in [Names -> Listings(sd) \cup OtherListings(sd)] :
                     \A n \in Names : n # 1 => f[n] \in OtherListings(sd)}} :
         sd \in Subdirs}

RepoIterables ==
  {[kind |-> k, items |-> s] : k \in {"list", "iterator"}, s \in SeqsUpTo(Repos, MaxRepos)}

\* the snapshots rescale is called on: every insertion order of the groups,
\* each with stale summary fields and an extra field
StaleBag == BagOf(Some(<<"text", 1>>), Some(2), Some(<<2, 1>>), Some("BSD"))
RescaleSelves ==
  {ChannelData(<<2>>, [order |-> o, val |-> [n \in Range(o) |-> GroupInfo(n, StaleBag)]]) :
     o \in Orderings(Names)}

\* the dictionaries given to from_data: each section may be missing or be
\* of the wrong type, and the version tag may be any of a few numbers
BagDicts ==
  UNION {{[order |-> o, val |-> b] : b \in [Range(o) -> ChannelBags]} :
         o \in Orderings(Names)}

SectionsOf(f) == [k \in {x \in DOMAIN f : f[x] # None} |-> f[k][1]]

Dictionaries ==
  {SectionsOf([channeldata_version |-> v, subdirs |-> s, packages |-> p]) :
     v \in Opt({0, 1, 2}),
     s \in Opt({PyInt} \cup {PyList(l) : l \in SeqsUpTo(Subdirs, MaxListLen)}),
     p \in Opt({PyInt} \cup {PyDict(b) : b \in BagDicts})}

(* ------------------------------- actions ------------------------------- *)
Call(name, a, result, e) ==
  /\ op' = name
  /\ arg' = a
  /\ out' = result
  /\ err' = e
  /\ UNCHANGED <<cls, self, built>>

UpdateLatest ==
  /\ op = "init" /\ cls = "ChannelGroupInfo"
  /\ \E v \in VersionTexts, t \in OptTimestamps :
       Call("update_latest", [version |-> v, timestamp |-> t],
            update_latest(self, v, t), "none")
  /\ UNCHANGED heapVars

UpdateSubdirs ==
  /\ op = "init" /\ cls = "ChannelGroupInfo"
  /\ \E s \in SeqsUpTo(Subdirs, MaxListLen) :
       Call("update_subdirs", s, update_subdirs(self, s), "none")
  /\ UNCHANGED heapVars

Merge ==
  /\ op = "init" /\ cls = "ChannelData" /\ self \in Snapshots
  /\ \E b \in Snapshots : Call("merge", b, merge(self, b), "none")
  /\ UNCHANGED heapVars

\* rescale returns type(self)(channel_subdirs, groups): list(a set) in any order
Rescale ==
  /\ op = "init" /\ cls = "ChannelData" /\ self \in RescaleSelves
  /\ \E repos \in RepoIterables :
       LET r == rescale(self, repos)
       IN IF r.err # "none" THEN Call("rescale", repos, None, r.err)
          ELSE \E s \in Perms(r.channel_subdirs) :
                 Call("rescale", repos, ChannelData(s, r.groups), "none")
  /\ UNCHANGED heapVars

\* the classmethod: on success the new snapshot becomes self
FromData ==
  /\ op = "init" /\ cls = "none"
  /\ \E d \in Dictionaries :
       LET r == from_data(d)
       IN /\ op' = "from_data"
          /\ arg' = d
          /\ err' = r.err
          /\ built' = r.built
          /\ out' = r.chan
          /\ self' = r.chan
          /\ cls' = IF r.err = "none" THEN "ChannelData" ELSE "none"
  /\ UNCHANGED heapVars

\* dump of the snapshot from_data returned
Dump ==
  /\ op = "from_data" /\ cls = "ChannelData"
  /\ Call("dump", arg, dump(self), "none")
  /\ UNCHANGED heapVars

(* ------------------------ what the claims speak of --------------------- *)
Count(s, x) == Cardinality({i \in 1..Len(s) : s[i] = x})
SameItems(s, t) == \A x \in Range(s) \cup Range(t) : Count(s, x) = Count(t, x)

\* every record the given repos hold for a name, whatever is iterated
RECURSIVE RecordsFor(_, _)
RecordsFor(name, items) ==
  IF items = <<>> THEN <<>>
  ELSE (IF RepoContains(Head(items), name) THEN RepoGet(Head(items), name) ELSE <<>>)
       \o RecordsFor(name, Tail(items))

TopKey(recs) ==
  CHOOSE k \in {create_order(recs[i].version) : i \in 1..Len(recs)} :
    \A i \in 1..Len(recs) : create_order(recs[i].version) <= k

\* the records of recs that have the highest order key
TopRecords(recs) ==
  {recs[i] : i \in {j \in 1..Len(recs) : create_order(recs[j].version) = TopKey(recs)}}

\* the timestamp field a record's timestamp leaves in a group
FieldOf(timestamp) == IF timestamp = Some(0) THEN None ELSE timestamp

\* C1: A.merge(B) has the union of the names, A's GroupInfo for every name
\* of A, B's for the names only B has, and the sorted duplicate-free union
\* of the subdirs
C1_MergeSelfWins ==
  op = "merge" =>
    /\ Keys(out.groups) = Keys(self.groups) \cup Keys(arg.groups)
    /\ DOMAIN out.groups.val = Keys(self.groups) \cup Keys(arg.groups)
    /\ \A n \in Keys(self.groups) : out.groups.val[n] = self.groups.val[n]
    /\ \A n \in Keys(arg.groups) \ Keys(self.groups) :
         out.groups.val[n] = arg.groups.val[n]
    /\ Range(out.subdirs) = Range(self.subdirs) \cup Range(arg.subdirs)
    /\ IsSorted(out.subdirs) /\ NoDup(out.subdirs)

C1_Witness ==
  /\ op = "merge"
  /\ \E n \in Keys(self.groups) \cap Keys(arg.groups) :
       self.groups.val[n] # arg.groups.val[n]
  /\ Keys(arg.groups) \ Keys(self.groups) # {}
  /\ ~IsSorted(self.subdirs)
  /\ Range(self.subdirs) \cap Range(arg.subdirs) # {}

\* C2: a group for which no repo yields a record is absent from the result
\* of rescale, and rescale adds no group name
C2_RescaleDrops ==
  (op = "rescale" /\ err = "none") =>
    /\ Keys(out.groups) \subseteq Keys(self.groups)
    /\ DOMAIN out.groups.val = Keys(out.groups)
    /\ \A n \in Keys(self.groups) :
         RecordsFor(n, arg.items) = <<>> => n \notin Keys(out.groups)

C2_Witness ==
  /\ op = "rescale" /\ err = "none"
  /\ Keys(out.groups) # {}
  /\ \E n \in Keys(self.groups) :
       /\ RecordsFor(n, arg.items) = <<>>
       /\ \E i \in 1..Len(arg.items) : RepoContains(arg.items[i], n)
       /\ n \notin Keys(out.groups)

\* C3: a surviving group's version is the string of the highest order key of
\* its records, whatever their timestamps, and its timestamp is that of a
\* record with that key, the field being absent for None and 0
C3_HighestOrderWins ==
  (op = "rescale" /\ err = "none") =>
    \A n \in Keys(out.groups) :
      LET recs == RecordsFor(n, arg.items)
          g == out.groups.val[n]
      IN /\ recs # <<>>
         /\ g.data["version"] = StrOfOrder(TopKey(recs))
         /\ g.data["version"] \notin VersionTexts
         /\ \E w \in TopRecords(recs) : GroupTimestamp(g) = FieldOf(w.timestamp)

C3_Witness ==
  /\ op = "rescale" /\ err = "none"
  /\ \E n \in Keys(out.groups) :
       LET recs == RecordsFor(n, arg.items)
       IN /\ \E i, j \in 1..Len(recs) :
               /\ create_order(recs[i].version) < create_order(recs[j].version)
               /\ recs[i].timestamp # None /\ recs[j].timestamp # None
               /\ recs[i].timestamp[1] > recs[j].timestamp[1]
               /\ GroupTimestamp(out.groups.val[n]) = FieldOf(recs[j].timestamp)
          /\ out.groups.val[n].data["version"] = StrOfOrder(2)

\* the highest timestamp of a set of records, None being the lowest
TopTimestamp(recs) ==
  IF \A r \in recs : r.timestamp = None THEN None
  ELSE CHOOSE t \in {r.timestamp : r \in recs} \ {None} :
         \A r \in recs : r.timestamp # None => r.timestamp[1] <= t[1]

\* C4: when several records of a group share the highest order key, rescale
\* completes and the group has the highest present timestamp among them
\* (none when all lack one), whatever mix of present and absent timestamps
C4_TieBreakByTimestamp ==
  (op = "rescale" /\ arg.kind = "list") =>
    \A n \in Keys(self.groups) :
      LET recs == RecordsFor(n, arg.items)
      IN (recs # <<>> /\ Cardinality(TopRecords(recs)) >= 2) =>
           /\ err = "none"
           /\ n \in Keys(out.groups)
           /\ GroupTimestamp(out.groups.val[n]) = FieldOf(TopTimestamp(TopRecords(recs)))

\* C5: the subdirs of the result of rescale are the union of the subdirs
\* fields of the surviving groups, and each such field is the sorted
\* duplicate-free set of the subdirs that contributed records
C5_SubdirsOfSurvivors ==
  (op = "rescale" /\ err = "none") =>
    /\ Range(out.subdirs) =
         UNION {Range(out.groups.val[n].data["subdirs"]) : n \in Keys(out.groups)}
    /\ \A n \in Keys(out.groups) :
         LET s == out.groups.val[n].data["subdirs"]
         IN /\ IsSorted(s) /\ NoDup(s)
            /\ Range(s) = {arg.items[i].subdir : i \in
                             {j \in 1..Len(arg.items) :
                                RecordsFor(n, <<arg.items[j]>>) # <<>>}}

\* C6: serialize(parse(d)) is d with subdirs sorted: version tag 1, the same
\* group names, every group's field bag verbatim
C6_RoundTrip ==
  op = "dump" =>
    /\ DOMAIN out = DOMAIN arg
    /\ out["channeldata_version"] = 1
    /\ out["channeldata_version"] = arg["channeldata_version"]
    /\ out["packages"].type = "dict"
    /\ out["packages"].val = arg["packages"].val
    /\ Range(out["packages"].order) = Range(arg["packages"].order)
    /\ out["subdirs"].type = "list"
    /\ IsSorted(out["subdirs"].items)
    /\ SameItems(out["subdirs"].items, arg["subdirs"].items)

C6_Witness ==
  /\ op = "dump"
  /\ ~IsSorted(arg["subdirs"].items)
  /\ Cardinality(DOMAIN arg["packages"].val) = 2
  /\ \E n \in DOMAIN arg["packages"].val : "license" \in DOMAIN arg["packages"].val[n]

\* C7: g.withLatest(version, timestamp) keeps the name, sets version, drops
\* the timestamp field for None and 0 and sets it otherwise, and carries
\* every other field over
C7_UpdateLatestFrame ==
  op = "update_latest" =>
    /\ out.name = self.name
    /\ "version" \in DOMAIN out.data /\ out.data["version"] = arg.version
    /\ (arg.timestamp = None \/ arg.timestamp = Some(0)) =>
         "timestamp" \notin DOMAIN out.data
    /\ (arg.timestamp # None /\ arg.timestamp # Some(0)) =>
         ("timestamp" \in DOMAIN out.data /\ out.data["timestamp"] = arg.timestamp[1])
    /\ (DOMAIN out.data) \ {"version", "timestamp"}
         = (DOMAIN self.data) \ {"version", "timestamp"}
    /\ \A k \in (DOMAIN self.data) \ {"version", "timestamp"} :
         out.data[k] = self.data[k]

C7_Witness ==
  /\ op = "update_latest"
  /\ "timestamp" \in DOMAIN self.data
  /\ arg.timestamp = Some(0)
  /\ "license" \in DOMAIN self.data /\ "subdirs" \in DOMAIN self.data
  /\ "version" \in DOMAIN self.data /\ self.data["version"] # arg.version

\* C8: for a dictionary that has a version tag, from_data raises
\* InvalidChannel exactly when the tag is not 1, and then before any group
\* is constructed and without a snapshot, whatever the other sections are
C8_InvalidChannel ==
  (op = "from_data" /\ "channeldata_version" \in DOMAIN arg) =>
    /\ (err = "InvalidChannel") <=> (arg["channeldata_version"] # 1)
    /\ err = "InvalidChannel" => (built = 0 /\ out = None /\ cls = "none")

C8_Witness ==
  /\ op = "from_data" /\ err = "InvalidChannel" /\ built = 0
  /\ "subdirs" \notin DOMAIN arg
  /\ "packages" \in DOMAIN arg /\ arg["packages"].type = "int"

\* C10: every group with a record in some given repo is in the result of
\* rescale, for a list of repos and for an iterator of repos alike
C10_EveryGroupRecomputed ==
  (op = "rescale" /\ err = "none") =>
    \A n \in Keys(self.groups) :
      RecordsFor(n, arg.items) # <<>> => n \in Keys(out.groups)

Init ==
  /\ op = "init"
  /\ \/ cls = "none" /\ self = None
     \/ cls = "ChannelGroupInfo" /\ self \in Groups
     \/ cls = "ChannelData" /\ self \in Snapshots \cup RescaleSelves
  /\ arg = None
  /\ out = None
  /\ err = "none"
  /\ built = 0
  /\ heap = <<>>
  /\ owner = <<>>
  /\ objs = <<>>
  /\ born = <<>>
  /\ hop = [last |-> "off", calls |-> 0, mutations |-> 0, cell |-> 0]

Next ==
  \/ UpdateLatest
  \/ UpdateSubdirs
  \/ Merge
  \/ Rescale
  \/ FromData
  \/ Dump

Spec == Init /\ [][Next]_vars

(* ------------------------- object store: actions ----------------------- *)
Store == [heap |-> heap, owner |-> owner, objs |-> objs, born |-> born]

\* the caller's dictionary d: subdirs at 1, the bag of package 1 at 3 with
\* its subdirs list at 2
CallerData ==
  [heap |-> <<ListCell(<<2, 1>>), ListCell(<<1>>),
              BagCell(<<"text", 1>>, Some(1), Some(2))>>,
   owner |-> <<"caller", "caller", "caller">>,
   objs |-> <<>>, born |-> <<>>]

CallerPackages == (1 :> 3)

\* the repos rescale is given in the object store
HeapRepos ==
  <<RepoData(2, (1 :> <<PackageRecord(<<"text", 2>>, Some(2), 2)>>)),
    RepoData(1, (1 :> <<PackageRecord(<<"text", 1>>, None, 1)>>))>>

GroupIds(st) == {i \in 1..Len(st.objs) : st.objs[i].cls = "ChannelGroupInfo"}
ChannelIds(st) == {i \in 1..Len(st.objs) : st.objs[i].cls = "ChannelData"}
CallerCells(st, type) ==
  {a \in 1..Len(st.heap) : st.owner[a] = "caller" /\ st.heap[a].type = type}

HStep(name, st) ==
  /\ hop.calls < MaxCalls
  /\ heap' = st.heap
  /\ owner' = st.owner
  /\ objs' = st.objs
  /\ born' = st.born
  /\ hop' = [hop EXCEPT !.last = name, !.calls = @ + 1]
  /\ UNCHANGED callVars

HNewGroup ==
  \E a \in CallerCells(Store, "bag") :
    HStep("ChannelGroupInfo", HGroupInit(Store, 2, a))

HDoGroupDump ==
  \E i \in GroupIds(Store) : HStep("group_dump", HGroupDump(Store, i))

HDoUpdateLatest ==
  \E i \in GroupIds(Store) :
    HStep("update_latest", HUpdateLatest(Store, i, <<"text", 2>>, None))

HDoUpdateSubdirs ==
  \E i \in GroupIds(Store), la \in CallerCells(Store, "list") :
    HStep("update_subdirs", HUpdateSubdirs(Store, i, la))

HNewChannel ==
  \E la \in CallerCells(Store, "list"), ma \in CallerCells(Store, "map") :
    HStep("ChannelData", HChannelInit(Store, la, ma))

HDoFromData ==
  HStep("from_data", HFromData(Store, 1, CallerPackages))

HDoSubdirs ==
  \E i \in ChannelIds(Store) : HStep("subdirs", HSubdirs(Store, i))

HDoDump ==
  \E i \in ChannelIds(Store) : HStep("dump", HChannelDump(Store, i))

HDoMerge ==
  \E i, j \in ChannelIds(Store) : HStep("merge", HMerge(Store, i, j))

HDoRescale ==
  \E i \in ChannelIds(Store) : HStep("rescale", HRescale(Store, i, HeapRepos))

\* the caller changes a dict or list it holds a reference to
HMutate ==
  /\ hop.mutations < MaxMutations
  /\ \E a \in 1..Len(heap) :
       /\ owner[a] = "caller"
       /\ heap' = [heap EXCEPT ![a] = Mutated(@)]
       /\ hop' = [hop EXCEPT !.last = "mutate", !.mutations = @ + 1, !.cell = a]
  /\ UNCHANGED <<owner, objs, born>>
  /\ UNCHANGED callVars

\* after from_data(d), with a mapping of the caller's for the constructor
HInit ==
  LET s1 == HFromData(CallerData, 1, CallerPackages)
      s2 == Alloc(s1, MapCell(1 :> 1), "caller")
  IN /\ heap = s2.heap
     /\ owner = s2.owner
     /\ objs = s2.objs
     /\ born = s2.born
     /\ hop = [last |-> "init", calls |-> 0, mutations |-> 0, cell |-> 0]
     /\ op = "off" /\ cls = "none" /\ self = None /\ arg = None
     /\ out = None /\ err = "none" /\ built = 0

HNext ==
  \/ HNewGroup
  \/ HDoGroupDump
  \/ HDoUpdateLatest
  \/ HDoUpdateSubdirs
  \/ HNewChannel
  \/ HDoFromData
  \/ HDoSubdirs
  \/ HDoDump
  \/ HDoMerge
  \/ HDoRescale
  \/ HMutate

SpecHeap == HInit /\ [][HNext]_vars

\* C9: whatever is called and whatever the caller does to the dicts and
\* lists it holds, every instance serializes as it did when constructed
C9_NeverMutated ==
  hop.last # "off" => \A i \in 1..Len(objs) : SerObj(Store, i) = born[i]

\* the caller has changed a bag it passed to a constructor or one that a
\* dump returned, and instances built from and after it exist
C9_Witness ==
  /\ hop.last = "mutate" /\ hop.calls >= 1
  /\ heap[hop.cell].type = "bag"
  /\ \E i \in 1..Len(objs) :
       /\ objs[i].cls = "ChannelGroupInfo"
       /\ SerBag(heap, objs[i].data) # SerBag(heap, hop.cell)
       /\ born[i].data.version # <<"text", 0>>
  /\ Len(objs) > 2

====
